---- MODULE Spec2Model ----
(***************************************************************************)
(* Model of src/main.py: NewsScraper.scrape / scrape_page, the pagination, *)
(* retry and deduplication controller of the news scraper.                 *)
(*                                                                         *)
(* One action per statement group of scrape() and scrape_page(); the       *)
(* program counter pc names the statement that runs next.  The data source *)
(* (GoogleNews) is the environment: a fetch returns any list of at most    *)
(* MaxResults items or raises, create_instance returns a session or        *)
(* raises, and a KeyboardInterrupt can arrive before any statement inside  *)
(* the try block of scrape().                                              *)
(***************************************************************************)
EXTENDS Integers, Sequences, FiniteSets, TLC

\* ------------------------------------------------------------------------
\* Program constants
\* ------------------------------------------------------------------------
MAX_PAGES == 100
batch_size == 10
max_retries == 3
EmptyLimit == 15
RateLimitWait == 600
BackoffBase == 30
RotateMin == 3
RotateMax == 7
TopY == 750
TitleSkip == 40
BottomMargin == 50
BlockGap == 10
Leading == 13

\* ------------------------------------------------------------------------
\* Bounds of the model
\* ------------------------------------------------------------------------
\* longest result list one page of the source returns
MaxResults == 2

\* number of fresh items the paginated feed of SpecLong can publish
MaxFeed == 7

\* most lines one wrapped article block of the report has
MaxLines == 54

\* ------------------------------------------------------------------------
\* The items the source can return.  A link is a host and a list of query
\* parameters, a title is a list of character codes.
\* ------------------------------------------------------------------------
Param(k, v) == [key |-> k, val |-> v]

Link(h, q) == [host |-> h, query |-> q]

\* "Foo", "foo", "News" as character codes
TitleFoo == <<70, 111, 111>>
TitleLowerFoo == <<102, 111, 111>>
TitleNews == <<78, 101, 119, 115>>

\* {url: "http://a.com?utm_src=x", title: "Foo"}
ItemA1 == [link |-> Link("a.com", <<Param("utm_src", 0)>>), title |-> TitleFoo]
\* {url: "http://a.com", title: "foo"}
ItemA2 == [link |-> Link("a.com", <<>>), title |-> TitleLowerFoo]

Items == {ItemA1, ItemA2}

\* the n-th item a feed publishes: {url: "http://feed.com?id=n", title: "News" n}
FeedItem(n) ==
    [link |-> Link("feed.com", <<Param("id", n)>>), title |-> Append(TitleNews, 48 + n)]

RECURSIVE SeqsUpTo(_, _)
SeqsUpTo(S, n) ==
    IF n = 0 THEN {<<>>}
    ELSE LET shorter == SeqsUpTo(S, n - 1)
         IN  shorter \cup {Append(s, x) : s \in {t \in shorter : Len(t) = n - 1}, x \in S}

\* every result list gn.results() can hold after get_page(page)
ResultLists == SeqsUpTo(Items, MaxResults)

Range(s) == {s[i] : i \in 1..Len(s)}

Min(a, b) == IF a < b THEN a ELSE b

RECURSIVE Pow2(_)
Pow2(n) == IF n = 0 THEN 1 ELSE 2 * Pow2(n - 1)

\* ------------------------------------------------------------------------
\* State
\* ------------------------------------------------------------------------
VARIABLES
    pc,                 \* statement of scrape()/scrape_page() that runs next
    gn,                 \* self.gn: "fresh" (just created), "used", "failed"
    articles,           \* self.articles
    unique_urls,        \* self.unique_urls
    consecutive_empty,  \* self.consecutive_empty
    batch_start,        \* loop variable of the batch loop
    batch_end,          \* batch_end of the current batch
    page,               \* loop variable of the page loop
    attempt,            \* loop variable of the retry loop
    wait_time,          \* wait_time of the generic-failure path
    new_articles,       \* value returned by scrape_page(page)
    result,             \* value returned by scrape(), "none" while running
    stop,               \* how scrape() ended: "running", "exhausted",
                        \* "stagnation", "interrupt", "fault"
    visited,            \* history: pages passed to scrape_page
    fails,              \* history: kinds of the failed attempts of this page
    rate_waits,         \* history: rate-limit sleeps of this page, in seconds
    cooldowns,          \* history: batch_start of every batch followed by a cooldown
    last_novel,         \* history: last page that produced a novel item
    failed_since,       \* history: a page after last_novel failed all its attempts
    caller,             \* who runs the report part: "none", "main", "api"
    password,           \* GMAIL_PASSWORD is set in the environment
    pdf_filename,       \* value returned by create_pdf(): "unset", "None", "file"
    email_success,      \* value returned by send_email(): "unset", "True", "False"
    exit_status,        \* status given to sys.exit(), -1 while running
    y_position,         \* y_position of create_pdf()
    idx,                \* index of the article create_pdf() renders next
    h,                  \* measured height of the block being placed
    canvas_pages,       \* pages of the canvas, 0 without a canvas
    last_block,         \* history: bottom and top of the block drawn last
    artifact,           \* history: the PDF file was written
    pdf_fault,          \* history: an exception was raised inside create_pdf()
    smtp_opened,        \* history: an SMTP connection was opened
    sent,               \* history: sendmail() returned
    email_fault         \* history: an exception was raised inside send_email()

vars == <<pc, gn, articles, unique_urls, consecutive_empty, batch_start,
          batch_end, page, attempt, wait_time, new_articles, result, stop,
          visited, fails, rate_waits, cooldowns, last_novel, failed_since,
          caller, password, pdf_filename, email_success, exit_status,
          y_position, idx, h, canvas_pages, last_block, artifact, pdf_fault,
          smtp_opened, sent, email_fault>>

ctl == <<batch_start, batch_end, page, attempt, wait_time>>
data == <<articles, unique_urls, consecutive_empty, new_articles>>
hist == <<visited, fails, rate_waits, cooldowns, last_novel, failed_since>>
scraper == <<gn, articles, unique_urls, consecutive_empty, batch_start, batch_end,
             page, attempt, wait_time, new_articles, result, stop, visited,
             fails, rate_waits, cooldowns, last_novel, failed_since>>
layout == <<y_position, idx, h, canvas_pages>>
pdf == <<pdf_filename, y_position, idx, h, canvas_pages, last_block, artifact,
         pdf_fault>>
mail == <<email_success, smtp_opened, sent, email_fault>>
report == <<caller, password, pdf_filename, email_success, exit_status,
            y_position, idx, h, canvas_pages, last_block, artifact, pdf_fault,
            smtp_opened, sent, email_fault>>

\* nothing of create_pdf(), send_email() or the __main__ block has run
ReportIdle ==
    /\ pdf_filename = "unset"
    /\ email_success = "unset"
    /\ exit_status = -1
    /\ y_position = 0
    /\ idx = 0
    /\ h = 0
    /\ canvas_pages = 0
    /\ last_block = <<>>
    /\ artifact = FALSE
    /\ pdf_fault = FALSE
    /\ smtp_opened = FALSE
    /\ sent = FALSE
    /\ email_fault = FALSE

\* NewsScraper.__init__ followed by the entry of scrape()
Init ==
    /\ pc = "batch"
    /\ gn = "fresh"
    /\ articles = <<>>
    /\ unique_urls = {}
    /\ consecutive_empty = 0
    /\ batch_start = 0
    /\ batch_end = 0
    /\ page = 0
    /\ attempt = 0
    /\ wait_time = 0
    /\ new_articles = <<>>
    /\ result = "none"
    /\ stop = "running"
    /\ visited = {}
    /\ fails = <<>>
    /\ rate_waits = <<>>
    /\ cooldowns = {}
    /\ last_novel = 0
    /\ failed_since = FALSE
    /\ caller = "none"
    /\ password = FALSE
    /\ ReportIdle

\* scrape() is left, by return or by an exception: its locals (those of
\* scrape_page() included) are gone
Leave ==
    /\ batch_start' = 0
    /\ batch_end' = 0
    /\ page' = 0
    /\ attempt' = 0
    /\ wait_time' = 0
    /\ new_articles' = <<>>

\* ------------------------------------------------------------------------
\* scrape(): batch loop and page loop
\* ------------------------------------------------------------------------
\* batch_end = min(batch_start + batch_size, MAX_PAGES + 1)
BatchEnd(bs) == Min(bs + batch_size, MAX_PAGES + 1)

\* for batch_start in range(0, MAX_PAGES, batch_size): next batch, or the
\* loop is exhausted and scrape() returns self.articles
BatchLoop ==
    /\ pc = "batch"
    /\ IF batch_start < MAX_PAGES
       THEN /\ batch_end' = BatchEnd(batch_start)
            /\ page' = batch_start + 1
            /\ pc' = "page"
            /\ UNCHANGED <<result, stop, batch_start, attempt, wait_time,
                           new_articles>>
       ELSE /\ pc' = "done"
            /\ result' = articles
            /\ stop' = "exhausted"
            /\ Leave
    /\ UNCHANGED <<gn, articles, unique_urls, consecutive_empty, hist>>
    /\ UNCHANGED report

\* if page % random.randint(3, 7) == 0
RotationDue(p, r) == p % r = 0

\* page loop head with the rotation not due for the drawn modulus
NoRotate ==
    /\ pc = "page"
    /\ page < batch_end
    /\ \E r \in RotateMin..RotateMax : ~RotationDue(page, r)
    /\ pc' = "delay"
    /\ UNCHANGED <<gn, result, stop, ctl, data, hist>>
    /\ UNCHANGED report

\* page loop head, rotation due, create_instance() returns
Rotate ==
    /\ pc = "page"
    /\ page < batch_end
    /\ \E r \in RotateMin..RotateMax : RotationDue(page, r)
    /\ gn' = "fresh"
    /\ pc' = "delay"
    /\ UNCHANGED <<result, stop, ctl, data, hist>>
    /\ UNCHANGED report

\* page loop head, rotation due, create_instance() raises: nothing in
\* scrape() catches it
RotateFault ==
    /\ pc = "page"
    /\ page < batch_end
    /\ \E r \in RotateMin..RotateMax : RotationDue(page, r)
    /\ pc' = "crashed"
    /\ stop' = "fault"
    /\ Leave
    /\ UNCHANGED <<gn, result, articles, unique_urls, consecutive_empty, hist>>
    /\ UNCHANGED report

\* the page loop of this batch is exhausted
PageLoopEnd ==
    /\ pc = "page"
    /\ page >= batch_end
    /\ pc' = "cooldown"
    /\ UNCHANGED <<gn, result, stop, ctl, data, hist>>
    /\ UNCHANGED report

\* delay = self.smart_delay(page), then scrape_page(page) is entered
Delay ==
    /\ pc = "delay"
    /\ pc' = "fetch"
    /\ attempt' = 0
    /\ visited' = visited \cup {page}
    /\ fails' = <<>>
    /\ rate_waits' = <<>>
    /\ UNCHANGED <<gn, result, stop, batch_start, batch_end, page, wait_time,
                   data, cooldowns, last_novel, failed_since>>
    /\ UNCHANGED report

\* ------------------------------------------------------------------------
\* scrape_page(page): the retry loop
\* ------------------------------------------------------------------------
\* [a for a in results if a['link'] not in self.unique_urls]
NovelOf(results, seen) == SelectSeq(results, LAMBDA a : a.link \notin seen)

\* for attempt in range(max_retries): the next attempt, or the loop is over
AfterAttempt(a) == IF a + 1 < max_retries THEN "fetch" ELSE "failed"

\* get_page(page) and results() return any list of at most MaxResults of the
\* Items; the page's novel items are returned
FetchOk ==
    /\ pc = "fetch"
    /\ \E results \in ResultLists :
          new_articles' = NovelOf(results, unique_urls)
    /\ gn' = "used"
    /\ attempt' = 0
    /\ pc' = "tally"
    /\ fails' = <<>>
    /\ UNCHANGED <<result, stop, batch_start, batch_end, page, wait_time,
                   articles, unique_urls, consecutive_empty, visited,
                   rate_waits, cooldowns, last_novel, failed_since>>
    /\ UNCHANGED report

\* what a feed can return: nothing, one item it published before, or (while
\* it has fresh items left) the next fresh item
FeedLists ==
    LET n == Cardinality(unique_urls)
    IN  {<<>>} \cup {<<FeedItem(k)>> : k \in 1..Min(n + 1, MaxFeed)}

\* get_page(page) and results() return, the source being a feed
FetchFeed ==
    /\ pc = "fetch"
    /\ \E results \in FeedLists :
          new_articles' = NovelOf(results, unique_urls)
    /\ gn' = "used"
    /\ attempt' = 0
    /\ pc' = "tally"
    /\ fails' = <<>>
    /\ UNCHANGED <<result, stop, batch_start, batch_end, page, wait_time,
                   articles, unique_urls, consecutive_empty, visited,
                   rate_waits, cooldowns, last_novel, failed_since>>
    /\ UNCHANGED report

\* mutation: the rate-limit wait grows with the attempt like the backoff
RateWaitGrows(a) == RateLimitWait * Pow2(a)

\* wait_time = 600 for a rate-limit error, whatever the attempt
RateWaitTime(a) == RateLimitWait

\* the fetch raises a rate-limit error ('429' / 'too many requests'):
\* time.sleep(600)
FetchRateLimited ==
    /\ pc = "fetch"
    /\ gn' = "failed"
    /\ fails' = Append(fails, "rate")
    /\ rate_waits' = Append(rate_waits, RateWaitTime(attempt))
    /\ pc' = "ratewait"
    /\ UNCHANGED <<result, stop, ctl, data, visited, cooldowns, last_novel,
                   failed_since>>
    /\ UNCHANGED report

\* mutation: the rate-limit path retries on the session that failed
RateReopenKeeps ==
    /\ pc = "ratewait"
    /\ attempt' = attempt + 1
    /\ pc' = AfterAttempt(attempt)
    /\ UNCHANGED <<gn, result, stop, batch_start, batch_end, page, wait_time,
                   data, hist>>
    /\ UNCHANGED report

\* the sleep ends; self.gn = self.create_instance(); continue
RateReopen ==
    /\ pc = "ratewait"
    /\ gn' = "fresh"
    /\ attempt' = attempt + 1
    /\ pc' = AfterAttempt(attempt)
    /\ UNCHANGED <<result, stop, batch_start, batch_end, page, wait_time,
                   data, hist>>
    /\ UNCHANGED report

\* create_instance() raises inside the except block: the exception leaves
\* scrape_page() and scrape()
RateReopenFault ==
    /\ pc = "ratewait"
    /\ pc' = "crashed"
    /\ stop' = "fault"
    /\ Leave
    /\ UNCHANGED <<gn, result, articles, unique_urls, consecutive_empty, hist>>
    /\ UNCHANGED report

\* the factors random.uniform(0.8, 1.2) is drawn from, in tenths: both ends
Jitter == {8, 12}

\* wait_time = 30 * (2 ** attempt) * random.uniform(0.8, 1.2)
BackoffTime(a, j) == (BackoffBase * Pow2(a) * j) \div 10

\* the fetch raises any other exception: wait_time is computed,
\* self.gn = self.create_instance() returns and time.sleep(wait_time) starts
FetchError ==
    /\ pc = "fetch"
    /\ gn' = "fresh"
    /\ fails' = Append(fails, "generic")
    /\ \E j \in Jitter : wait_time' = BackoffTime(attempt, j)
    /\ pc' = "backoff"
    /\ UNCHANGED <<result, stop, batch_start, batch_end, page, attempt, data,
                   visited, rate_waits, cooldowns, last_novel, failed_since>>
    /\ UNCHANGED report

\* the fetch raises any other exception and create_instance() raises inside
\* the except block
ReopenFault ==
    /\ pc = "fetch"
    /\ gn' = "failed"
    /\ fails' = Append(fails, "generic")
    /\ pc' = "crashed"
    /\ stop' = "fault"
    /\ Leave
    /\ UNCHANGED <<result, articles, unique_urls, consecutive_empty, visited,
                   rate_waits, cooldowns, last_novel, failed_since>>
    /\ UNCHANGED report

\* time.sleep(wait_time) ends, then the next iteration of the retry loop
Backoff ==
    /\ pc = "backoff"
    /\ wait_time' = 0
    /\ attempt' = attempt + 1
    /\ pc' = AfterAttempt(attempt)
    /\ UNCHANGED <<gn, result, stop, batch_start, batch_end, page, data, hist>>
    /\ UNCHANGED report

\* the retry loop is exhausted: scrape_page() returns []
GiveUp ==
    /\ pc = "failed"
    /\ new_articles' = <<>>
    /\ attempt' = 0
    /\ failed_since' = TRUE
    /\ pc' = "tally"
    /\ UNCHANGED <<gn, result, stop, batch_start, batch_end, page, wait_time,
                   articles, unique_urls, consecutive_empty, visited, fails,
                   rate_waits, cooldowns, last_novel>>
    /\ UNCHANGED report

\* ------------------------------------------------------------------------
\* scrape(): progress tracking, stagnation stop, batch cooldown
\* ------------------------------------------------------------------------
\* self.articles.extend(new_articles)
Extend ==
    /\ pc = "tally"
    /\ new_articles # <<>>
    /\ articles' = articles \o new_articles
    /\ pc' = "update"
    /\ UNCHANGED <<gn, result, stop, ctl, unique_urls, consecutive_empty,
                   new_articles, hist>>
    /\ UNCHANGED report

\* mutation: a page with novel items does not reset the counter
UpdateKeepsCount ==
    /\ pc = "update"
    /\ unique_urls' = unique_urls \cup {a.link : a \in Range(new_articles)}
    /\ new_articles' = <<>>
    /\ last_novel' = page
    /\ failed_since' = FALSE
    /\ rate_waits' = <<>>
    /\ pc' = "check"
    /\ UNCHANGED <<gn, result, stop, ctl, articles, consecutive_empty, visited,
                   fails, cooldowns>>
    /\ UNCHANGED report

\* self.unique_urls.update(a['link'] for a in new_articles);
\* self.consecutive_empty = 0
Update ==
    /\ pc = "update"
    /\ unique_urls' = unique_urls \cup {a.link : a \in Range(new_articles)}
    /\ consecutive_empty' = 0
    /\ new_articles' = <<>>
    /\ last_novel' = page
    /\ failed_since' = FALSE
    /\ rate_waits' = <<>>
    /\ pc' = "check"
    /\ UNCHANGED <<gn, result, stop, ctl, articles, visited, fails, cooldowns>>
    /\ UNCHANGED report

\* else: self.consecutive_empty += 1
NoNew ==
    /\ pc = "tally"
    /\ new_articles = <<>>
    /\ consecutive_empty' = consecutive_empty + 1
    /\ fails' = <<>>
    /\ rate_waits' = <<>>
    /\ pc' = "check"
    /\ UNCHANGED <<gn, result, stop, ctl, articles, unique_urls, new_articles,
                   visited, cooldowns, last_novel, failed_since>>
    /\ UNCHANGED report

\* mutation: the comparison is strict
StagnantLate(n) == n > EmptyLimit

\* if self.consecutive_empty >= 15
Stagnant(n) == n >= EmptyLimit

\* the stagnation check stops the run: return self.articles
StagnationStop ==
    /\ pc = "check"
    /\ Stagnant(consecutive_empty)
    /\ pc' = "done"
    /\ result' = articles
    /\ stop' = "stagnation"
    /\ Leave
    /\ UNCHANGED <<gn, articles, unique_urls, consecutive_empty, hist>>
    /\ UNCHANGED report

\* the stagnation check passes: the page loop takes its next value
NextPage ==
    /\ pc = "check"
    /\ ~Stagnant(consecutive_empty)
    /\ page' = page + 1
    /\ pc' = "page"
    /\ UNCHANGED <<gn, result, stop, batch_start, batch_end, attempt,
                   wait_time, data, hist>>
    /\ UNCHANGED report

\* if batch_end <= MAX_PAGES
CooldownDue(be) == be <= MAX_PAGES

\* end of a batch: the long break if it is due, then the batch loop takes
\* its next value
BatchCooldown ==
    /\ pc = "cooldown"
    /\ cooldowns' = IF CooldownDue(batch_end)
                    THEN cooldowns \cup {batch_start}
                    ELSE cooldowns
    /\ batch_start' = batch_start + batch_size
    /\ pc' = "batch"
    /\ UNCHANGED <<gn, result, stop, batch_end, page, attempt, wait_time,
                   data, visited, fails, rate_waits, last_novel, failed_since>>
    /\ UNCHANGED report

\* mutation: the interrupt is only taken between page iterations
InTryBetweenPages == {"batch", "page", "check", "cooldown"}

\* the statements inside the try block of scrape() (those of scrape_page()
\* included)
InTry == {"batch", "page", "delay", "fetch", "ratewait", "backoff", "failed",
          "tally", "update", "check", "cooldown"}

\* mutation: the interrupted run returns an empty list
InterruptLoses(arts) == <<>>

\* what the except KeyboardInterrupt block followed by line 133 returns
InterruptResult(arts) == arts

\* a KeyboardInterrupt arrives inside the try block: it is not an Exception,
\* so scrape_page() lets it through; scrape() logs and returns self.articles
KeyboardInterrupt ==
    /\ pc \in InTry
    /\ pc' = "done"
    /\ result' = InterruptResult(articles)
    /\ stop' = "interrupt"
    /\ Leave
    /\ UNCHANGED <<gn, articles, unique_urls, consecutive_empty, hist>>
    /\ UNCHANGED report

Next ==
    \/ BatchLoop
    \/ NoRotate
    \/ Rotate
    \/ RotateFault
    \/ PageLoopEnd
    \/ Delay
    \/ FetchOk
    \/ FetchRateLimited
    \/ RateReopen
    \/ RateReopenFault
    \/ FetchError
    \/ ReopenFault
    \/ Backoff
    \/ GiveUp
    \/ Extend
    \/ Update
    \/ NoNew
    \/ StagnationStop
    \/ NextPage
    \/ BatchCooldown
    \/ KeyboardInterrupt

NextLong ==
    \/ BatchLoop
    \/ NoRotate
    \/ Rotate
    \/ RotateFault
    \/ PageLoopEnd
    \/ Delay
    \/ FetchFeed
    \/ FetchRateLimited
    \/ RateReopen
    \/ RateReopenFault
    \/ FetchError
    \/ ReopenFault
    \/ Backoff
    \/ GiveUp
    \/ Extend
    \/ Update
    \/ NoNew
    \/ StagnationStop
    \/ NextPage
    \/ BatchCooldown
    \/ KeyboardInterrupt

\* the source returns arbitrary lists of the Items
Spec == Init /\ [][Next]_vars

\* the source is a feed of up to MaxFeed fresh items: long runs
SpecLong == Init /\ [][NextLong]_vars

\* ------------------------------------------------------------------------
\* Normalized deduplication keys, as the specification defines them
\* ------------------------------------------------------------------------
\* parameter keys that match a known tracking prefix
TrackingKeys == {"utm_src"}

\* the order query parameters are sorted in
KeyRank(k) == IF k = "id" THEN 1 ELSE IF k = "utm_src" THEN 2 ELSE 3

ParamLess(p, q) ==
    \/ KeyRank(p.key) < KeyRank(q.key)
    \/ KeyRank(p.key) = KeyRank(q.key) /\ p.val < q.val

RECURSIVE InsertParam(_, _)
InsertParam(p, q) ==
    IF q = <<>> THEN <<p>>
    ELSE IF ParamLess(p, Head(q)) THEN <<p>> \o q
    ELSE <<Head(q)>> \o InsertParam(p, Tail(q))

RECURSIVE SortParams(_)
SortParams(q) == IF q = <<>> THEN <<>> ELSE InsertParam(Head(q), SortParams(Tail(q)))

\* tracking parameters removed, the remaining ones sorted
NormalizeUrl(l) ==
    [host |-> l.host,
     query |-> SortParams(SelectSeq(l.query, LAMBDA p : p.key \notin TrackingKeys))]

LowerChar(c) == IF c >= 65 /\ c <= 90 THEN c + 32 ELSE c

RECURSIVE TrimLeft(_)
TrimLeft(t) == IF t # <<>> /\ Head(t) = 32 THEN TrimLeft(Tail(t)) ELSE t

RECURSIVE TrimRight(_)
TrimRight(t) ==
    IF t # <<>> /\ t[Len(t)] = 32 THEN TrimRight(SubSeq(t, 1, Len(t) - 1)) ELSE t

\* lowercased and trimmed
NormalizeTitle(t) == TrimRight(TrimLeft([i \in 1..Len(t) |-> LowerChar(t[i])]))

\* the links of a list of articles
LinksOf(arts) == {a.link : a \in Range(arts)}

\* ------------------------------------------------------------------------
\* The report part: __main__, create_pdf() and send_email()
\* ------------------------------------------------------------------------
\* scrape() was interrupted right after its first page had added arts (or,
\* for no articles, before anything was fetched) and has returned
ScrapeReturned(arts) ==
    /\ gn = IF arts = <<>> THEN "fresh" ELSE "used"
    /\ articles = arts
    /\ unique_urls = LinksOf(arts)
    /\ consecutive_empty = 0
    /\ batch_start = 0
    /\ batch_end = 0
    /\ page = 0
    /\ attempt = 0
    /\ wait_time = 0
    /\ new_articles = <<>>
    /\ result = arts
    /\ stop = "interrupt"
    /\ visited = IF arts = <<>> THEN {} ELSE {1}
    /\ fails = <<>>
    /\ rate_waits = <<>>
    /\ cooldowns = {}
    /\ last_novel = IF arts = <<>> THEN 0 ELSE 1
    /\ failed_since = FALSE

\* scrape() was left by the exception of a create_instance() that raised
\* after the first failed fetch of page 1
ScrapeCrashed ==
    /\ gn = "failed"
    /\ articles = <<>>
    /\ unique_urls = {}
    /\ consecutive_empty = 0
    /\ batch_start = 0
    /\ batch_end = 0
    /\ page = 0
    /\ attempt = 0
    /\ wait_time = 0
    /\ new_articles = <<>>
    /\ result = "none"
    /\ stop = "fault"
    /\ visited = {1}
    /\ fails = <<"generic">>
    /\ rate_waits = <<>>
    /\ cooldowns = {}
    /\ last_novel = 0
    /\ failed_since = FALSE

\* the __main__ block after scraper.scrape() (line 235), or create_pdf()
\* called directly on the scraper ("api")
InitReport ==
    /\ ReportIdle
    /\ password \in BOOLEAN
    /\ \/ /\ caller = "main"
          /\ pc = "main"
          /\ \E arts \in ResultLists : ScrapeReturned(arts)
       \/ /\ caller = "api"
          /\ pc = "pdf"
          /\ \E arts \in ResultLists : ScrapeReturned(arts)
       \/ /\ caller = "main"
          /\ pc = "crashed"
          /\ ScrapeCrashed

\* the uncaught exception of scrape() ends the process with status 1
MainCrashed ==
    /\ pc = "crashed"
    /\ caller = "main"
    /\ exit_status = -1
    /\ exit_status' = 1
    /\ pc' = "exit"
    /\ UNCHANGED <<scraper, caller, password, pdf, mail>>

\* if articles: ... else: sys.exit(1)
MainArticles ==
    /\ pc = "main"
    /\ IF result # <<>>
       THEN /\ pc' = "pdf"
            /\ UNCHANGED exit_status
       ELSE /\ pc' = "exit"
            /\ exit_status' = 1
    /\ UNCHANGED <<scraper, caller, password, pdf, mail>>

\* create_pdf() returns to the __main__ block or to its direct caller
PdfReturnTo == IF caller = "main" THEN "main_pdf" ELSE "returned"

\* mutation: the guard for an empty collection is missing
NothingToRenderNever(arts) == FALSE

\* if not self.articles
NothingToRender(arts) == arts = <<>>

\* create_pdf() with no articles: return None
PdfNothing ==
    /\ pc = "pdf"
    /\ NothingToRender(articles)
    /\ pdf_filename' = "None"
    /\ pc' = PdfReturnTo
    /\ UNCHANGED <<scraper, caller, password, exit_status, layout, last_block,
                   artifact, pdf_fault, mail>>

\* the canvas is made, the report title is drawn at y = 750, y_position -= 40
PdfOpen ==
    /\ pc = "pdf"
    /\ ~NothingToRender(articles)
    /\ canvas_pages' = 1
    /\ y_position' = TopY - TitleSkip
    /\ idx' = 1
    /\ h' = 0
    /\ pc' = "pdf_loop"
    /\ UNCHANGED <<scraper, caller, password, exit_status, pdf_filename,
                   last_block, artifact, pdf_fault, mail>>

\* line counts a wrapped block is measured with: one line, half of MaxLines,
\* MaxLines
LineCounts == {1, MaxLines \div 2, MaxLines}

\* p.wrapOn(c, 500, 800); h = p.height: the lines of the block times the
\* leading
BlockHeight(lines) == Leading * lines

\* for idx, article in enumerate(self.articles): the block of the next
\* article is built and measured
PdfMeasure ==
    /\ pc = "pdf_loop"
    /\ idx <= Len(articles)
    /\ \E lines \in LineCounts : h' = BlockHeight(lines)
    /\ pc' = "pdf_place"
    /\ UNCHANGED <<scraper, caller, password, exit_status, pdf_filename,
                   y_position, idx, canvas_pages, last_block, artifact,
                   pdf_fault, mail>>

\* if y_position - h < 50
Overflows(y, bh) == y - bh < BottomMargin

\* if the block overflows: c.showPage(), y_position = 750; then
\* p.drawOn(c, 50, y_position - h); y_position -= h + 10
PdfPlace ==
    /\ pc = "pdf_place"
    /\ LET y == IF Overflows(y_position, h) THEN TopY ELSE y_position
       IN  /\ canvas_pages' = IF Overflows(y_position, h)
                              THEN canvas_pages + 1
                              ELSE canvas_pages
           /\ last_block' = [bottom |-> y - h, top |-> y, page |-> canvas_pages']
           /\ y_position' = y - (h + BlockGap)
    /\ idx' = idx + 1
    /\ h' = 0
    /\ pc' = "pdf_loop"
    /\ UNCHANGED <<scraper, caller, password, exit_status, pdf_filename,
                   artifact, pdf_fault, mail>>

\* the loop is over: c.save(); return pdf_filename
PdfSave ==
    /\ pc = "pdf_loop"
    /\ idx > Len(articles)
    /\ artifact' = TRUE
    /\ pdf_filename' = "file"
    /\ y_position' = 0
    /\ idx' = 0
    /\ h' = 0
    /\ canvas_pages' = 0
    /\ pc' = PdfReturnTo
    /\ UNCHANGED <<scraper, caller, password, exit_status, last_block,
                   pdf_fault, mail>>

\* the statements inside the try block of create_pdf()
InPdfTry == {"pdf", "pdf_loop", "pdf_place"}

\* an exception inside the try block of create_pdf(): it is logged and None
\* is returned; a c.save() that fails may have written a file
PdfFault ==
    /\ pc \in InPdfTry
    /\ pc = "pdf" => ~NothingToRender(articles)
    /\ pdf_fault' = TRUE
    /\ pdf_filename' = "None"
    /\ artifact' \in IF pc = "pdf_loop" /\ idx > Len(articles)
                     THEN BOOLEAN
                     ELSE {FALSE}
    /\ y_position' = 0
    /\ idx' = 0
    /\ h' = 0
    /\ canvas_pages' = 0
    /\ pc' = PdfReturnTo
    /\ UNCHANGED <<scraper, caller, password, exit_status, last_block, mail>>

\* if pdf_filename: send_email(pdf_filename) else: sys.exit(1)
MainPdf ==
    /\ pc = "main_pdf"
    /\ IF pdf_filename = "file"
       THEN /\ pc' = "email"
            /\ UNCHANGED exit_status
       ELSE /\ pc' = "exit"
            /\ exit_status' = 1
    /\ UNCHANGED <<scraper, caller, password, pdf, mail>>

\* mutation: the credential is not checked
PasswordNeverMissing(pw) == FALSE

\* if not password
PasswordMissing(pw) == ~pw

\* send_email() without GMAIL_PASSWORD: return False
EmailNoPassword ==
    /\ pc = "email"
    /\ PasswordMissing(password)
    /\ email_success' = "False"
    /\ pc' = "main_exit"
    /\ UNCHANGED <<scraper, caller, password, exit_status, pdf, smtp_opened,
                   sent, email_fault>>

\* the message is built and the PDF is read and attached
EmailAttach ==
    /\ pc = "email"
    /\ ~PasswordMissing(password)
    /\ pc' = "smtp_connect"
    /\ UNCHANGED <<scraper, caller, password, exit_status, pdf, mail>>

\* smtplib.SMTP("smtp.gmail.com", 587)
SmtpConnect ==
    /\ pc = "smtp_connect"
    /\ smtp_opened' = TRUE
    /\ pc' = "smtp_login"
    /\ UNCHANGED <<scraper, caller, password, exit_status, pdf, email_success,
                   sent, email_fault>>

\* server.starttls(); server.login(sender_email, password)
SmtpLogin ==
    /\ pc = "smtp_login"
    /\ pc' = "smtp_send"
    /\ UNCHANGED <<scraper, caller, password, exit_status, pdf, mail>>

\* server.sendmail(...)
SmtpSend ==
    /\ pc = "smtp_send"
    /\ sent' = TRUE
    /\ pc' = "smtp_quit"
    /\ UNCHANGED <<scraper, caller, password, exit_status, pdf, email_success,
                   smtp_opened, email_fault>>

\* server.quit(); return True
SmtpQuit ==
    /\ pc = "smtp_quit"
    /\ email_success' = "True"
    /\ pc' = "main_exit"
    /\ UNCHANGED <<scraper, caller, password, exit_status, pdf, smtp_opened,
                   sent, email_fault>>

\* the statements of send_email() that can raise: the attachment (reached
\* with a password) and the SMTP calls, all inside a try block
InEmailTry == {"email", "smtp_connect", "smtp_login", "smtp_send", "smtp_quit"}

\* what the except blocks of send_email() return
EmailFaultResult == "False"

\* an exception while attaching, connecting, authenticating, sending or
\* quitting: it is logged and False is returned
EmailFault ==
    /\ pc \in InEmailTry
    /\ pc = "email" => ~PasswordMissing(password)
    /\ email_fault' = TRUE
    /\ email_success' = EmailFaultResult
    /\ pc' = "main_exit"
    /\ UNCHANGED <<scraper, caller, password, exit_status, pdf, smtp_opened, sent>>

\* mutation: the delivery outcome is ignored
ExitAlwaysZero(ok) == 0

\* sys.exit(0 if email_success else 1)
ExitCode(ok) == IF ok = "True" THEN 0 ELSE 1

MainExit ==
    /\ pc = "main_exit"
    /\ exit_status' = ExitCode(email_success)
    /\ pc' = "exit"
    /\ UNCHANGED <<scraper, caller, password, pdf, mail>>

NextReport ==
    \/ MainCrashed
    \/ MainArticles
    \/ PdfNothing
    \/ PdfOpen
    \/ PdfMeasure
    \/ PdfPlace
    \/ PdfSave
    \/ PdfFault
    \/ MainPdf
    \/ EmailNoPassword
    \/ EmailAttach
    \/ SmtpConnect
    \/ SmtpLogin
    \/ SmtpSend
    \/ SmtpQuit
    \/ EmailFault
    \/ MainExit

\* the report part, run on what scrape() returned
SpecReport == InitReport /\ [][NextReport]_vars

\* ------------------------------------------------------------------------
\* Claims
\* ------------------------------------------------------------------------

\* C1: no two articles of the result collection have the same normalized URL
\* or the same normalized title, whatever pages they arrived on.
C1_NoNormalizedDuplicate ==
    \A i, j \in 1..Len(articles) :
        i < j =>
            /\ NormalizeUrl(articles[i].link) # NormalizeUrl(articles[j].link)
            /\ NormalizeTitle(articles[i].title) # NormalizeTitle(articles[j].title)

\* C2: between page steps and at the end of the run (a cancelled run
\* included) the keys recorded as seen are exactly the keys of the articles
\* in the result collection.
C2_SeenIsExactlyKept ==
    pc \in {"batch", "page", "check", "cooldown", "done"} =>
        unique_urls = LinksOf(articles)

\* C3: a run that ends because the page budget is used up has processed
\* every page number from 1 to MAX_PAGES.
C3_EveryPageProcessed ==
    stop = "exhausted" => visited = 1..MAX_PAGES

\* C4: a page whose fetch fails on every attempt makes at most max_retries
\* attempts, lets no exception leave scrape_page(), adds no article and
\* raises the consecutive-empty counter by one.
C4_FailedPageIsEmptyPage ==
    [][/\ Len(fails') <= max_retries
       /\ (fails' # <<>> => pc' # "crashed")
       /\ (pc = "tally" /\ Len(fails) = max_retries /\ pc' = "check" =>
              /\ articles' = articles
              /\ consecutive_empty' = consecutive_empty + 1)]_vars

\* C5: no fault raised while a page is processed leaves scrape(): the run
\* never ends by an exception.
C5_NoFaultEscapes == stop # "fault" /\ pc # "crashed"

\* C6: once the consecutive-empty counter has reached EmptyLimit the only
\* step left is the return of the articles collected so far; no page is
\* fetched after that, and the counter is carried unchanged across batch
\* boundaries.
C6_StagnationStopsRun ==
    [][/\ (consecutive_empty' >= EmptyLimit => pc' \in {"check", "done"})
       /\ (consecutive_empty >= EmptyLimit =>
              /\ pc' = "done"
              /\ result' = articles
              /\ articles' = articles
              /\ visited' = visited)
       /\ (pc \in {"batch", "page", "cooldown"} =>
              consecutive_empty' = consecutive_empty)]_vars

\* a stagnation stop whose 15 empty pages span batch boundaries
C6_Witness ==
    /\ stop = "stagnation"
    /\ pc = "done"
    /\ consecutive_empty = EmptyLimit
    /\ last_novel = 5
    /\ result = articles
    /\ articles # <<>>

\* C7: when page K - 1 was the last page with a novel item and every later
\* page was fetched and held only duplicates, the stagnation stop comes after
\* exactly the page numbers K .. K + 14 were processed.
C7_StopsAfterFifteenPageNumbers ==
    stop = "stagnation" /\ last_novel >= 1 /\ ~failed_since =>
        /\ {p \in visited : p > last_novel} = (last_novel + 1)..(last_novel + EmptyLimit)
        /\ result = articles

\* C8: a batch cooldown is slept only after a batch that is followed by
\* more pages, never after the last batch.
C8_NoCooldownAfterLastBatch ==
    \A b \in cooldowns : b + batch_size < MAX_PAGES

\* C9: every rate-limit failure sleeps 600 seconds whatever the attempt, then
\* reopens the session and moves to the next attempt, never beyond
\* max_retries attempts; a fetch that succeeds after two rate-limited
\* attempts was preceded by exactly two 600-second sleeps and returns the
\* novel items of its own result list.
C9_RateLimitCooldown ==
    [][/\ (pc = "fetch" /\ pc' = "ratewait" =>
              rate_waits' = Append(rate_waits, 600))
       /\ (pc = "ratewait" /\ pc' \in InTry =>
              /\ gn' = "fresh"
              /\ attempt' = attempt + 1
              /\ pc' = IF attempt' < max_retries THEN "fetch" ELSE "failed")
       /\ attempt' <= max_retries
       /\ (pc = "fetch" /\ pc' = "tally" /\ fails = <<"rate", "rate">> =>
              /\ attempt = 2
              /\ rate_waits' = <<600, 600>>
              /\ \E results \in ResultLists :
                    /\ new_articles' = NovelOf(results, unique_urls)
                    /\ Range(new_articles') = Range(results) \ {a \in Items : a.link \in unique_urls})]_vars

\* the third attempt of a page succeeded after two rate-limited attempts and
\* returned a novel item
C9_Witness ==
    /\ pc = "tally"
    /\ rate_waits = <<600, 600>>
    /\ new_articles # <<>>

\* C10: a KeyboardInterrupt inside the try block ends scrape() by a normal
\* return of the result collection, with every article collected before it.
C10_InterruptReturnsPartial ==
    [][(pc \in InTry /\ stop' = "interrupt") =>
          /\ pc' = "done"
          /\ result' = articles
          /\ \A i \in 1..Len(articles) : result'[i] = articles[i]
      ]_vars

\* the run was interrupted inside the retry path of a page, after articles
\* had been collected, and returned them
C10_Witness ==
    /\ stop = "interrupt"
    /\ pc = "done"
    /\ fails # <<>>
    /\ articles # <<>>
    /\ result = articles

\* scrape() returned at least one article
Collected == stop # "fault" /\ result # <<>>

\* C11: the process exits with status 0 exactly when articles were collected,
\* a document was rendered and the delivery succeeded; create_pdf() is run by
\* the __main__ block only with articles, send_email() only with a document.
C11_ExitStatus ==
    /\ exit_status \in {-1, 0, 1}
    /\ (pc = "exit" <=> exit_status # -1)
    /\ (exit_status # -1 =>
           (exit_status = 0 <=>
               /\ Collected
               /\ pdf_filename = "file"
               /\ email_success = "True"))
    /\ (caller = "main" /\ (pc \in InPdfTry \/ pdf_filename # "unset") =>
           Collected)
    /\ (pc \in InEmailTry \/ email_success # "unset" => pdf_filename = "file")

\* the process exited with status 0 after the message was sent
C11_Witness ==
    /\ pc = "exit"
    /\ exit_status = 0
    /\ sent
    /\ artifact
    /\ Len(result) > 0

\* C12: create_pdf() on an empty collection returns None without making a
\* canvas or a file, and an exception inside create_pdf() ends in a return of
\* None, not in an exception.
C12_NothingToRender ==
    /\ (articles = <<>> /\ pc \in {"returned", "main_pdf"} =>
           /\ pdf_filename = "None"
           /\ ~artifact
           /\ last_block = <<>>)
    /\ (articles = <<>> => canvas_pages = 0)
    /\ (pdf_fault => pdf_filename = "None" /\ pc \in {"returned", "main_pdf", "exit"})

\* create_pdf() was called on a scraper without articles and returned None
C12_Witness ==
    /\ caller = "api"
    /\ articles = <<>>
    /\ pc = "returned"
    /\ pdf_filename = "None"
    /\ ~pdf_fault

\* C13: send_email() returns False without opening a connection when the
\* credential is missing, returns False on any exception of its attach and
\* SMTP steps, and returns True only after sendmail() returned.
C13_SendEmailAbsorbsFaults ==
    /\ (email_success = "True" => sent /\ smtp_opened /\ ~email_fault)
    /\ (~password => ~smtp_opened /\ email_success \in {"unset", "False"})
    /\ (~password /\ pc \in {"main_exit", "exit"} /\ pdf_filename = "file" =>
           email_success = "False")
    /\ (email_fault => email_success = "False" /\ pc \in {"main_exit", "exit"})
    /\ email_success \in {"unset", "True", "False"}

\* an exception after the connection was opened was turned into False
C13_Witness ==
    /\ pc = "main_exit"
    /\ email_fault
    /\ smtp_opened
    /\ email_success = "False"

\* C14 (as claimed): the interrupt is observed only between page
\* iterations, never while a page's delay, fetch or retry wait is in flight.
C14_CancellationOnlyBetweenPages ==
    [][(stop = "running" /\ stop' = "interrupt") =>
          pc \in {"batch", "page", "check", "cooldown"}]_vars

\* the statements at which a page's delay, fetch or retry wait is in flight
InFlight == {"delay", "fetch", "ratewait", "backoff"}

\* C14 (amended): the interrupt is taken at once, also while a page's delay,
\* fetch or retry wait is in flight; the page in flight is abandoned (no
\* further attempt, nothing added, counter untouched) and the collection is
\* returned as it stands.
C14_CancellationIsImmediate ==
    /\ [](pc \in InFlight => ENABLED KeyboardInterrupt)
    /\ [][(pc \in InFlight /\ stop' = "interrupt") =>
             /\ pc' = "done"
             /\ visited' = visited
             /\ articles' = articles
             /\ unique_urls' = unique_urls
             /\ consecutive_empty' = consecutive_empty
             /\ result' = articles]_vars

\* the run was interrupted during the retry wait after the first failed
\* attempt of page 2; page 2 was never tallied
C14_Witness ==
    /\ stop = "interrupt"
    /\ Len(fails) = 1
    /\ visited = {1, 2}
    /\ last_novel = 1
    /\ consecutive_empty = 0
    /\ result = articles

\* C15: the stagnation check comes before any batch cooldown: the end of a
\* batch is never reached with the counter at EmptyLimit, and no cooldown is
\* recorded once the counter is there.
C15_NoCooldownOnStagnation ==
    [][/\ (pc' = "cooldown" => consecutive_empty' < EmptyLimit)
       /\ (consecutive_empty >= EmptyLimit => cooldowns' = cooldowns)]_vars

\* the counter reached EmptyLimit on page 19, the last page of the second
\* batch, and the run returned with only the first batch's cooldown slept
C15_Witness ==
    /\ stop = "stagnation"
    /\ last_novel = 3
    /\ 19 \in visited
    /\ \A p \in visited : p <= 19
    /\ cooldowns = {0}

\* C16: no fetch attempt is made on a session on which an attempt failed:
\* every failed attempt and every rotation that returns leaves a fresh
\* session in self.gn before the next fetch, and pages are tallied with a
\* session that did not fail.
C16_NoFetchOnFailedSession ==
    [][/\ (pc' \in {"fetch", "failed", "tally", "delay"} => gn' # "failed")
       /\ (pc = "fetch" /\ pc' \in {"ratewait", "backoff"} => Len(fails') = Len(fails) + 1)
       /\ (pc \in {"ratewait", "backoff"} /\ pc' \in {"fetch", "failed"} => gn' = "fresh")
       /\ (pc = "page" /\ pc' = "delay" /\ gn' # gn => gn' = "fresh")]_vars

\* the second attempt of a page is about to run on a fresh session after a
\* rate-limited first attempt
C16_Witness ==
    /\ pc = "fetch"
    /\ attempt = 1
    /\ fails = <<"rate">>
    /\ gn = "fresh"

\* is s a prefix of t
IsPrefix(s, t) == Len(s) <= Len(t) /\ \A i \in 1..Len(s) : s[i] = t[i]

\* C17: every step moves the run state forward only: a newly visited page
\* has a larger number than every page visited before, the collection is
\* extended at its end, and the counter is set to 0 by the tally of a page
\* with novel items, raised by one by the tally of any other page, left
\* alone otherwise, and stays within 0..EmptyLimit.
C17_MonotoneRunState ==
    [][/\ (visited' # visited =>
              /\ visited \subseteq visited'
              /\ \A p \in visited' \ visited : \A q \in visited : p > q)
       /\ (pc' \in InTry /\ page' # page => page' > page)
       /\ IsPrefix(articles, articles')
       /\ consecutive_empty' =
              IF pc = "update" /\ pc' = "check" THEN 0
              ELSE IF pc = "tally" /\ pc' = "check" THEN consecutive_empty + 1
              ELSE consecutive_empty
       /\ consecutive_empty' \in 0..EmptyLimit]_vars

\* a page with a novel item has reset a counter that empty pages had raised
C17_Witness ==
    /\ pc = "check"
    /\ consecutive_empty = 0
    /\ last_novel = 12
    /\ Len(articles) >= 2
    /\ visited = (1..12) \ {10}

\* C18: every block is drawn entirely between the bottom margin (y = 50) and
\* the top start position (y = 750) of one page.
C18_BlockWithinPage ==
    last_block # <<>> =>
        /\ last_block.bottom >= BottomMargin
        /\ last_block.top <= TopY

\* C19: the result collection never holds two articles with the same raw
\* link.
C19_NoRawLinkTwice ==
    \A i, j \in 1..Len(articles) : i < j => articles[i].link # articles[j].link

\* C20: a backoff wait or rate-limit cooldown is entered only when another
\* attempt of the page is left.
C20_NoWaitAfterLastAttempt ==
    pc \in {"ratewait", "backoff"} => attempt + 1 < max_retries

====
